---- MODULE Spec2Model ----
(***************************************************************************)
(* Model of mela2mealie.py: the slug normaliser, the record mapper and the *)
(* migrate() orchestration against the Mealie HTTP API.                    *)
(*                                                                         *)
(* Strings are sequences of one-character strings.  A character outside    *)
(* ASCII is written as its code point name ("U+00FC" is u-umlaut).         *)
(***************************************************************************)
EXTENDS Integers, Sequences, FiniteSets, TLC

VARIABLES
    \* inputs of one run of migrate()
    export,          \* the file at export_path: exists, suffix, entries
    dry_run,
    skip_images,
    \* locals of migrate()
    pc,              \* position in migrate(), "exited" after sys.exit(1),
                     \* "crashed" after an uncaught exception, "done" after return
    recipes,
    category_lookup,
    tag_lookup,
    catQueue,        \* the names sorted(all_cats) has still to yield
    tagQueue,        \* the names sorted(all_tags) has still to yield
    i,               \* the loop index of enumerate(recipes, 1)
    slug,
    success,
    failed,
    clock,           \* int(time.time())
    \* the Mealie instance behind base_url
    srvRecipes,      \* slug -> name
    srvCategories,   \* slug -> entity
    srvTags,         \* slug -> entity
    \* what the run did, for the properties
    aboutCalls,      \* GET /api/app/about calls issued
    catPosts,        \* category name -> POST calls issued
    tagPosts,        \* tag name -> POST calls issued
    orgGets,         \* GET .../slug/{slug} calls issued
    resolverRuns,    \* times the pre-creation block was entered
    resolveFailed,   \* [kind, name] of the names whose resolution failed
    createLog,       \* per record: <<[name, status]>> of its POST /api/recipes calls
    patchLog,        \* per record: the slugs its PATCH calls were addressed to
    putLog,          \* per record: the slugs its image PUT calls were addressed to
    patchStatus,     \* per record: what its PATCH calls returned, "error" if raised
    uploads,         \* per record: [image, outcome] of its upload_image calls
    ownSlugs,        \* per record: the slugs the server created for its POSTs
    payloads,        \* per record: the mealie_data computed for it, if any
    result,          \* per record: the outcomes it was counted under, in order
    slugsBefore,     \* per record: the slugs on the target at its first POST
    tallies,         \* times the summary was printed
    \* slugify harness
    sIn,             \* the input text
    sOnce,           \* slugify(sIn), <<>> before the call
    sTwice,          \* slugify(slugify(sIn))
    sPc,             \* "input", "once", "twice", or "off" during a migration
    \* ingredient parser harness
    gIn,             \* the ingredients block
    gOut,            \* mela_ingredients_to_list(gIn), <<>> before the call
    gPc              \* "input", "parsed", or "off" otherwise

slugVars == <<sIn, sOnce, sTwice, sPc>>

ingVars == <<gIn, gOut, gPc>>

inputVars == <<export, dry_run, skip_images>>

localVars == <<pc, recipes, category_lookup, tag_lookup, catQueue, tagQueue, i, slug,
               success, failed, clock>>

serverVars == <<srvRecipes, srvCategories, srvTags>>

historyVars == <<aboutCalls, catPosts, tagPosts, orgGets, resolverRuns, resolveFailed,
                 createLog, patchLog, putLog, patchStatus, uploads, ownSlugs, payloads,
                 result, slugsBefore, tallies>>

vars == <<inputVars, localVars, serverVars, historyVars, slugVars, ingVars>>

----------------------------------------------------------------------------
(* Characters                                                              *)

UpperChars == <<"A", "B", "C", "D", "E", "F", "G", "H", "I", "J", "K", "L", "M",
                "N", "O", "P", "Q", "R", "S", "T", "U", "V", "W", "X", "Y", "Z">>

LowerChars == <<"a", "b", "c", "d", "e", "f", "g", "h", "i", "j", "k", "l", "m",
                "n", "o", "p", "q", "r", "s", "t", "u", "v", "w", "x", "y", "z">>

DigitChars == <<"0", "1", "2", "3", "4", "5", "6", "7", "8", "9">>

Range(s) == {s[k] : k \in DOMAIN s}

\* str.lower() on one character
Lower(c) ==
    IF c \in Range(UpperChars)
    THEN LowerChars[CHOOSE k \in DOMAIN UpperChars : UpperChars[k] = c]
    ELSE c

\* the regular expression class \w on ASCII text
IsWordChar(c) ==
    c \in Range(UpperChars) \cup Range(LowerChars) \cup Range(DigitChars) \cup {"_"}

\* the regular expression class \s, and what str.strip() removes
WhitespaceChars == {" "}

\* unicodedata.normalize("NFKD", c).encode("ascii", "ignore") on one character:
\* u-umlaut decomposes to "u" and a combining mark that is dropped, sharp s
\* has no decomposition and is dropped, ASCII is kept.
AsciiFold(c) ==
    IF c = "U+00FC" THEN <<"u">>
    ELSE IF c = "U+00DF" THEN <<>>
    ELSE <<c>>

RECURSIVE AsciiNormalize(_)
AsciiNormalize(text) ==
    IF text = <<>> THEN <<>>
    ELSE AsciiFold(Head(text)) \o AsciiNormalize(Tail(text))

LowerText(text) == [k \in DOMAIN text |-> Lower(text[k])]

RECURSIVE LStrip(_, _)
LStrip(text, chars) ==
    IF text # <<>> /\ Head(text) \in chars THEN LStrip(Tail(text), chars) ELSE text

RECURSIVE RStrip(_, _)
RStrip(text, chars) ==
    IF text # <<>> /\ text[Len(text)] \in chars
    THEN RStrip(SubSeq(text, 1, Len(text) - 1), chars)
    ELSE text

\* str.strip(chars)
Strip(text, chars) == RStrip(LStrip(text, chars), chars)

\* re.sub(r'[chars]+', '-', text): every maximal run of chars becomes one hyphen
RECURSIVE SubRuns(_, _)
SubRuns(text, chars) ==
    IF text = <<>> THEN <<>>
    ELSE IF Head(text) \in chars
         THEN <<"-">> \o SubRuns(LStrip(text, chars), chars)
         ELSE <<Head(text)>> \o SubRuns(Tail(text), chars)

\* re.sub(r'[^\w\s-]', '', text)
KeptBySlug(c) == IsWordChar(c) \/ c \in WhitespaceChars \/ c = "-"

RemoveNonWord(text) == SelectSeq(text, KeptBySlug)

\* slugify with the hyphens trimmed before spaces and underscores become hyphens
slugifyEarlyTrim(text) ==
    LET t1 == AsciiNormalize(text)
        t2 == Strip(LowerText(t1), WhitespaceChars)
        t3 == Strip(RemoveNonWord(t2), {"-"})
        t4 == SubRuns(t3, WhitespaceChars \cup {"_"})
    IN  SubRuns(t4, {"-"})

slugify(text) ==
    LET t1 == AsciiNormalize(text)
        t2 == Strip(LowerText(t1), WhitespaceChars)
        t3 == RemoveNonWord(t2)
        t4 == SubRuns(t3, WhitespaceChars \cup {"_"})
        t5 == SubRuns(t4, {"-"})
    IN  Strip(t5, {"-"})

----------------------------------------------------------------------------
(* Texts and source records                                                *)

\* An optional field of a dict is <<>> when absent and <<v>> when present.
Absent == <<>>

Present(v) == <<v>>

TitlePi == <<"P", "i">>

Untitled == <<"U", "n", "t", "i", "t", "l", "e", "d">>

CatUpperA == <<"A">>

CatLowerA == <<"a">>

MelaImport == <<"m", "e", "l", "a", "-", "i", "m", "p", "o", "r", "t">>

Favorite == <<"f", "a", "v", "o", "r", "i", "t", "e">>

WantToCook == <<"w", "a", "n", "t", "-", "t", "o", "-", "c", "o", "o", "k">>

\* The .melarecipe records the archives of the model are made of.  images
\* lists the embedded blobs by whether base64 decodes them.
RecipeTitledFavorite ==
    [title |-> Present(TitlePi), categories |-> <<CatUpperA>>,
     favorite |-> TRUE, wantToCook |-> FALSE, images |-> <<"valid">>]

RecipeTitledWanted ==
    [title |-> Present(TitlePi), categories |-> <<CatLowerA>>,
     favorite |-> FALSE, wantToCook |-> TRUE, images |-> <<>>]

RecipeUntitled ==
    [title |-> Absent, categories |-> <<>>,
     favorite |-> FALSE, wantToCook |-> FALSE, images |-> <<"undecodable", "valid">>]

RecipePool == {RecipeTitledFavorite, RecipeTitledWanted, RecipeUntitled}

\* int -> decimal text, as an f-string formats it
RECURSIVE IntToText(_)
IntToText(n) ==
    IF n < 10 THEN <<DigitChars[n + 1]>>
    ELSE IntToText(n \div 10) \o <<DigitChars[(n % 10) + 1]>>

\* title = mela.get("title", "Untitled")
RecipeTitle(mela) == IF mela.title = Absent THEN Untitled ELSE mela.title[1]

\* title_unique = f"{title} (mela-{int(time.time())})"
TitleUnique(title, now) ==
    title \o <<" ", "(", "m", "e", "l", "a", "-">> \o IntToText(now) \o <<")">>

----------------------------------------------------------------------------
(* Ingredient parser                                                       *)

Newline == "\n"

\* str.split("\n")
RECURSIVE SplitLines(_)
SplitLines(text) ==
    IF Newline \notin Range(text) THEN <<text>>
    ELSE LET p == CHOOSE k \in DOMAIN text :
                      /\ text[k] = Newline
                      /\ \A j \in 1..(k - 1) : text[j] # Newline
         IN  <<SubSeq(text, 1, p - 1)>> \o SplitLines(SubSeq(text, p + 1, Len(text)))

\* the pending title left as it is after it was attached
PendingTitleKept(pending_title) == pending_title

\* pending_title = None, after the title was attached
PendingTitleConsumed(pending_title) == Absent

\* The loop over the lines.  pending_title is Absent for None.  referenceId
\* stands for the uuid4 drawn for the item: the number of the draw.
RECURSIVE IngredientsLoop(_, _, _)
IngredientsLoop(lines, pending_title, ingredients) ==
    IF lines = <<>> THEN ingredients
    ELSE LET line == Strip(Head(lines), WhitespaceChars)
         IN  IF line = <<>>
             THEN IngredientsLoop(Tail(lines), pending_title, ingredients)
             ELSE IF Head(line) = "#"
             THEN IngredientsLoop(Tail(lines),
                      Present(Strip(LStrip(line, {"#"}), WhitespaceChars)), ingredients)
             ELSE LET titled == pending_title # Absent /\ pending_title[1] # <<>>
                      ing == [note |-> line,
                              referenceId |-> Len(ingredients) + 1,
                              title |-> IF titled THEN pending_title ELSE Absent]
                  IN  IngredientsLoop(Tail(lines),
                          IF titled THEN PendingTitleConsumed(pending_title)
                          ELSE pending_title,
                          Append(ingredients, ing))

mela_ingredients_to_list(ingredients_str) ==
    IF ingredients_str = <<>> THEN <<>>
    ELSE IngredientsLoop(SplitLines(ingredients_str), Absent, <<>>)

----------------------------------------------------------------------------
(* Record mapper                                                           *)

\* slug -> {"id", "name", "slug"} tables are functions on a set of slugs
EmptyTable == [s \in {} |-> 0]

Put(table, key, value) ==
    [s \in (DOMAIN table) \cup {key} |-> IF s = key THEN value ELSE table[s]]

\* the loop over cats that fills cat_refs
RECURSIVE CatRefs(_, _)
CatRefs(cats, cat_table) ==
    IF cats = <<>> THEN <<>>
    ELSE LET c == Head(cats)
             rest == CatRefs(Tail(cats), cat_table)
         IN  IF c = <<>> THEN rest
             ELSE IF slugify(c) \in DOMAIN cat_table
                  THEN <<cat_table[slugify(c)]>> \o rest
                  ELSE rest

\* tag_refs
TagRefs(mela, tag_table) ==
    (IF MelaImport \in DOMAIN tag_table THEN <<tag_table[MelaImport]>> ELSE <<>>)
    \o (IF mela.favorite /\ Favorite \in DOMAIN tag_table
        THEN <<tag_table[Favorite]>> ELSE <<>>)
    \o (IF mela.wantToCook /\ WantToCook \in DOMAIN tag_table
        THEN <<tag_table[WantToCook]>> ELSE <<>>)

\* The PATCH payload, restricted to the keys that name the recipe and refer
\* to categories and tags; a key the code does not set is Absent.
convert_mela_to_mealie(mela, cat_table, tag_table) ==
    LET cat_refs == CatRefs(mela.categories, cat_table)
        tag_refs == TagRefs(mela, tag_table)
    IN  [name |-> IF mela.title # Absent /\ mela.title[1] # <<>>
                  THEN Present(mela.title[1]) ELSE Absent,
         recipeCategory |-> IF cat_refs # <<>> THEN Present(cat_refs) ELSE Absent,
         tags |-> IF tag_refs # <<>> THEN Present(tag_refs) ELSE Absent]

----------------------------------------------------------------------------
(* Archive reader                                                          *)

\* One entry of a .melarecipes zip: a .melarecipe file (valid JSON or not),
\* a nested .melarecipes zip, or a file with another name.
RecipeEntry(r) == [kind |-> "recipe", valid |-> TRUE, recipe |-> r, inner |-> <<>>]

BadEntry ==
    [kind |-> "recipe", valid |-> FALSE, recipe |-> RecipeUntitled, inner |-> <<>>]

OtherEntry ==
    [kind |-> "other", valid |-> FALSE, recipe |-> RecipeUntitled, inner |-> <<>>]

NestedEntry ==
    [kind |-> "nested", valid |-> FALSE, recipe |-> RecipeUntitled,
     inner |-> <<RecipeEntry(RecipeTitledWanted), BadEntry>>]

\* the .melarecipe entries of one zip, in namelist order, invalid JSON skipped
RECURSIVE InnerRecipes(_)
InnerRecipes(entries) ==
    IF entries = <<>> THEN <<>>
    ELSE LET e == Head(entries)
         IN  (IF e.kind = "recipe" /\ e.valid THEN <<e.recipe>> ELSE <<>>)
             \o InnerRecipes(Tail(entries))

RECURSIVE ExtractRecipes(_)
ExtractRecipes(entries) ==
    IF entries = <<>> THEN <<>>
    ELSE LET e == Head(entries)
         IN  (IF e.kind = "recipe" THEN (IF e.valid THEN <<e.recipe>> ELSE <<>>)
              ELSE IF e.kind = "nested" THEN InnerRecipes(e.inner)
              ELSE <<>>)
             \o ExtractRecipes(Tail(entries))

----------------------------------------------------------------------------
(* Reference resolver helpers                                              *)

\* code points, for the order sorted() puts names in
CodeOrder == <<" ", "!", "-">> \o DigitChars \o UpperChars \o <<"_">> \o LowerChars

Ord(c) == CHOOSE k \in DOMAIN CodeOrder : CodeOrder[k] = c

RECURSIVE TextLess(_, _)
TextLess(a, b) ==
    IF a = <<>> THEN b # <<>>
    ELSE IF b = <<>> THEN FALSE
    ELSE IF Head(a) = Head(b) THEN TextLess(Tail(a), Tail(b))
    ELSE Ord(Head(a)) < Ord(Head(b))

\* sorted(names)
RECURSIVE Sorted(_)
Sorted(names) ==
    IF names = {} THEN <<>>
    ELSE LET least == CHOOSE n \in names : \A m \in names \ {n} : TextLess(n, m)
         IN  <<least>> \o Sorted(names \ {least})

\* all_cats
AllCats(rs) == UNION {{c \in Range(rs[k].categories) : c # <<>>} : k \in DOMAIN rs}

\* all_tags
AllTags(rs) ==
    {MelaImport}
    \cup (IF \E k \in DOMAIN rs : rs[k].favorite THEN {Favorite} ELSE {})
    \cup (IF \E k \in DOMAIN rs : rs[k].wantToCook THEN {WantToCook} ELSE {})

\* {"id": data["id"], "name": data["name"], "slug": data["slug"]}
Entity(id, name, slugText) == [id |-> id, name |-> name, slug |-> slugText]

----------------------------------------------------------------------------
(* The Mealie instance                                                     *)

\* the slug the server gives a new recipe: the slug of its name, numbered
\* when that slug is taken
FreshSlug(name, taken) ==
    LET base == slugify(name)
        n == CHOOSE k \in 1..(Cardinality(taken) + 1) :
                 /\ base \o <<"-">> \o IntToText(k) \notin taken
                 /\ \A j \in 1..(k - 1) : base \o <<"-">> \o IntToText(j) \in taken
    IN  IF base \notin taken THEN base ELSE base \o <<"-">> \o IntToText(n)

\* the body of a 201 response to POST /api/recipes: the slug as a JSON string
JsonString(text) == <<"\"">> \o text \o <<"\"">>

NewId(table) == Cardinality(DOMAIN table) + 1

\* A target that is empty, or one an earlier import has already filled.
FreshTarget == [recipes |-> EmptyTable, categories |-> EmptyTable, tags |-> EmptyTable]

ImportedTarget ==
    [recipes |-> Put(EmptyTable, slugify(TitlePi), TitlePi),
     categories |-> Put(EmptyTable, slugify(CatUpperA),
                        Entity(1, CatUpperA, slugify(CatUpperA))),
     tags |-> Put(EmptyTable, slugify(MelaImport),
                  Entity(1, MelaImport, slugify(MelaImport)))]

----------------------------------------------------------------------------
(* migrate()                                                               *)

MaxEntries == 2

MaxClock == 2

skipped == 0

EntryPool ==
    {RecipeEntry(r) : r \in RecipePool} \cup {BadEntry, NestedEntry, OtherEntry}

RECURSIVE SeqsUpTo(_, _)
SeqsUpTo(S, n) ==
    IF n = 0 THEN {<<>>}
    ELSE LET shorter == SeqsUpTo(S, n - 1)
         IN  shorter \cup {Append(q, e) : q \in shorter, e \in S}

Exports ==
    {[exists |-> FALSE, suffix |-> ".melarecipes", entries |-> <<>>],
     [exists |-> TRUE, suffix |-> ".zip", entries |-> <<>>]}
    \cup {[exists |-> TRUE, suffix |-> ".melarecipe", entries |-> <<e>>] :
             e \in {RecipeEntry(RecipeTitledFavorite), BadEntry}}
    \cup {[exists |-> TRUE, suffix |-> ".melarecipes", entries |-> es] :
             es \in SeqsUpTo(EntryPool, MaxEntries)}

PerRecord(n, v) == [k \in 1..n |-> v]

Init ==
    /\ export \in Exports
    /\ dry_run \in BOOLEAN
    /\ skip_images \in BOOLEAN
    /\ pc = "start"
    /\ recipes = <<>>
    /\ category_lookup = EmptyTable
    /\ tag_lookup = EmptyTable
    /\ catQueue = <<>>
    /\ tagQueue = <<>>
    /\ i = 1
    /\ slug = <<>>
    /\ success = 0
    /\ failed = 0
    /\ clock = 1
    /\ \E target \in {FreshTarget, ImportedTarget} :
        /\ srvRecipes = target.recipes
        /\ srvCategories = target.categories
        /\ srvTags = target.tags
    /\ aboutCalls = 0
    /\ catPosts = EmptyTable
    /\ tagPosts = EmptyTable
    /\ orgGets = 0
    /\ resolverRuns = 0
    /\ resolveFailed = {}
    /\ createLog = <<>>
    /\ patchLog = <<>>
    /\ putLog = <<>>
    /\ patchStatus = <<>>
    /\ uploads = <<>>
    /\ ownSlugs = <<>>
    /\ payloads = <<>>
    /\ result = <<>>
    /\ slugsBefore = <<>>
    /\ tallies = 0
    /\ sIn = <<>>
    /\ sOnce = <<>>
    /\ sTwice = <<>>
    /\ sPc = "off"
    /\ gIn = <<>>
    /\ gOut = <<>>
    /\ gPc = "off"

\* if not export_path.exists(): sys.exit(1)
CheckExportExists ==
    /\ pc = "start"
    /\ pc' = IF export.exists THEN "verify" ELSE "exited"
    /\ UNCHANGED <<inputVars, recipes, category_lookup, tag_lookup, catQueue, tagQueue,
                   i, slug, success, failed, clock, serverVars, historyVars, slugVars, ingVars>>

\* the connection is verified with a mutant that probes in every mode
ProbesTargetAlways == TRUE

\* if not dry_run:
ProbesTarget == ~dry_run

\* Verify connection
VerifyConnection ==
    /\ pc = "verify"
    /\ \/ /\ ~ProbesTarget
          /\ pc' = "extract"
          /\ UNCHANGED aboutCalls
       \/ /\ ProbesTarget
          /\ aboutCalls' = aboutCalls + 1
          /\ \E outcome \in {"200", "500", "ConnectionError", "RequestException"} :
                pc' = CASE outcome = "200" -> "extract"
                        [] outcome = "500" -> "exited"
                        [] outcome = "ConnectionError" -> "exited"
                        [] OTHER -> "crashed"
    /\ UNCHANGED <<inputVars, recipes, category_lookup, tag_lookup, catQueue, tagQueue,
                   i, slug, success, failed, clock, serverVars, catPosts, tagPosts,
                   orgGets, resolverRuns, resolveFailed, createLog, patchLog, putLog, patchStatus, uploads,
                   ownSlugs, payloads, result, slugsBefore, tallies, slugVars, ingVars>>

\* Extract recipes from export, print the count, return when there is none
ExtractRecipesFromExport ==
    /\ pc = "extract"
    /\ LET found == IF export.suffix = ".melarecipes"
                    THEN ExtractRecipes(export.entries)
                    ELSE IF export.suffix = ".melarecipe" /\ export.entries[1].valid
                         THEN <<export.entries[1].recipe>>
                         ELSE <<>>
           n == Len(found)
       IN  /\ recipes' = found
           /\ pc' = IF export.suffix = ".melarecipes"
                    THEN (IF found = <<>> THEN "done" ELSE "resolve")
                    ELSE IF export.suffix = ".melarecipe"
                         THEN (IF export.entries[1].valid THEN "resolve" ELSE "crashed")
                         ELSE "exited"
           /\ createLog' = PerRecord(n, <<>>)
           /\ patchLog' = PerRecord(n, <<>>)
           /\ putLog' = PerRecord(n, <<>>)
           /\ patchStatus' = PerRecord(n, <<>>)
           /\ uploads' = PerRecord(n, <<>>)
           /\ ownSlugs' = PerRecord(n, {})
           /\ payloads' = PerRecord(n, Absent)
           /\ result' = PerRecord(n, <<>>)
           /\ slugsBefore' = PerRecord(n, {})
    /\ UNCHANGED <<inputVars, category_lookup, tag_lookup, catQueue, tagQueue,
                   i, slug, success, failed, clock, serverVars, aboutCalls, catPosts,
                   tagPosts, orgGets, resolverRuns, resolveFailed, tallies, slugVars, ingVars>>

Count(table, key) == IF key \in DOMAIN table THEN table[key] ELSE 0

\* Pre-create categories and tags: the tables start empty; outside a dry run
\* all_cats and all_tags are collected
PreCreateReferences ==
    /\ pc = "resolve"
    /\ category_lookup' = EmptyTable
    /\ tag_lookup' = EmptyTable
    /\ IF dry_run
       THEN /\ pc' = "loop"
            /\ UNCHANGED <<catQueue, tagQueue, resolverRuns>>
       ELSE /\ catQueue' = Sorted(AllCats(recipes))
            /\ tagQueue' = Sorted(AllTags(recipes))
            /\ resolverRuns' = resolverRuns + 1
            /\ pc' = IF AllCats(recipes) = {} THEN "tags" ELSE "categories"
    /\ UNCHANGED <<inputVars, recipes, i, slug, success, failed, clock, serverVars,
                   aboutCalls, catPosts, tagPosts, orgGets, resolveFailed, createLog,
                   patchLog, putLog, patchStatus, uploads, ownSlugs, payloads, result, slugsBefore, tallies,
                   slugVars, ingVars>>

\* Create categories: one pass of the loop over sorted(all_cats)
ResolveCategory ==
    /\ pc = "categories"
    /\ LET cat_name == Head(catQueue)
           cat_slug == slugify(cat_name)
           onward == IF Tail(catQueue) = <<>> THEN "tags" ELSE "categories"
           failure == resolveFailed \cup {<<"category", cat_name>>}
       IN  /\ catQueue' = Tail(catQueue)
           /\ catPosts' = Put(catPosts, cat_name, Count(catPosts, cat_name) + 1)
           /\ \/ \* 200 or 201: the server created the category
                 /\ cat_slug \notin DOMAIN srvCategories
                 /\ LET data == Entity(NewId(srvCategories), cat_name, cat_slug)
                    IN  /\ srvCategories' = Put(srvCategories, cat_slug, data)
                        /\ category_lookup' = Put(category_lookup, data.slug, data)
                 /\ pc' = onward
                 /\ UNCHANGED <<orgGets, resolveFailed>>
              \/ \* 409: already exists, fetch it by slug
                 /\ cat_slug \in DOMAIN srvCategories
                 /\ orgGets' = orgGets + 1
                 /\ \/ \* 200
                       /\ LET data == srvCategories[cat_slug]
                          IN  category_lookup' = Put(category_lookup, data.slug, data)
                       /\ pc' = onward
                       /\ UNCHANGED resolveFailed
                    \/ \* any other status
                       /\ pc' = onward
                       /\ resolveFailed' = failure
                       /\ UNCHANGED category_lookup
                    \/ \* the GET raises
                       /\ pc' = "crashed"
                       /\ resolveFailed' = failure
                       /\ UNCHANGED category_lookup
                 /\ UNCHANGED srvCategories
              \/ \* any other status: warn and go on
                 /\ pc' = onward
                 /\ resolveFailed' = failure
                 /\ UNCHANGED <<category_lookup, srvCategories, orgGets>>
              \/ \* the POST raises
                 /\ pc' = "crashed"
                 /\ resolveFailed' = failure
                 /\ UNCHANGED <<category_lookup, srvCategories, orgGets>>
    /\ UNCHANGED <<inputVars, recipes, tag_lookup, tagQueue, i, slug, success, failed,
                   clock, srvRecipes, srvTags, aboutCalls, tagPosts, resolverRuns,
                   createLog, patchLog, putLog, patchStatus, uploads, ownSlugs, payloads, result, slugsBefore,
                   tallies, slugVars, ingVars>>

\* Create tags: one pass of the loop over sorted(all_tags)
ResolveTag ==
    /\ pc = "tags"
    /\ LET tag_name == Head(tagQueue)
           tag_slug == slugify(tag_name)
           onward == IF Tail(tagQueue) = <<>> THEN "loop" ELSE "tags"
           failure == resolveFailed \cup {<<"tag", tag_name>>}
       IN  /\ tagQueue' = Tail(tagQueue)
           /\ tagPosts' = Put(tagPosts, tag_name, Count(tagPosts, tag_name) + 1)
           /\ \/ \* 200 or 201: the server created the tag
                 /\ tag_slug \notin DOMAIN srvTags
                 /\ LET data == Entity(NewId(srvTags), tag_name, tag_slug)
                    IN  /\ srvTags' = Put(srvTags, tag_slug, data)
                        /\ tag_lookup' = Put(tag_lookup, data.slug, data)
                 /\ pc' = onward
                 /\ UNCHANGED <<orgGets, resolveFailed>>
              \/ \* 409: already exists, fetch it by slug
                 /\ tag_slug \in DOMAIN srvTags
                 /\ orgGets' = orgGets + 1
                 /\ \/ \* 200
                       /\ LET data == srvTags[tag_slug]
                          IN  tag_lookup' = Put(tag_lookup, data.slug, data)
                       /\ pc' = onward
                       /\ UNCHANGED resolveFailed
                    \/ \* any other status
                       /\ pc' = onward
                       /\ resolveFailed' = failure
                       /\ UNCHANGED tag_lookup
                    \/ \* the GET raises
                       /\ pc' = "crashed"
                       /\ resolveFailed' = failure
                       /\ UNCHANGED tag_lookup
                 /\ UNCHANGED srvTags
              \/ \* any other status: warn and go on
                 /\ pc' = onward
                 /\ resolveFailed' = failure
                 /\ UNCHANGED <<tag_lookup, srvTags, orgGets>>
              \/ \* the POST raises
                 /\ pc' = "crashed"
                 /\ resolveFailed' = failure
                 /\ UNCHANGED <<tag_lookup, srvTags, orgGets>>
    /\ UNCHANGED <<inputVars, recipes, category_lookup, catQueue, i, slug, success,
                   failed, clock, srvRecipes, srvCategories, aboutCalls, catPosts,
                   resolverRuns, createLog, patchLog, putLog, patchStatus, uploads, ownSlugs, payloads, result,
                   slugsBefore, tallies, slugVars, ingVars>>

\* the loop over the records, with the pre-creation block inside it
PcAfterRecordResolving(k, n) == IF k < n THEN "resolve" ELSE "summary"

\* for i, mela in enumerate(recipes, 1): the next pass, or the summary
PcAfterRecord(k, n) == IF k < n THEN "loop" ELSE "summary"

\* failed += 1; continue
FailRecord ==
    /\ failed' = failed + 1
    /\ result' = [result EXCEPT ![i] = Append(@, "failed")]
    /\ i' = i + 1
    /\ pc' = PcAfterRecord(i, Len(recipes))
    /\ UNCHANGED success

\* success += 1, and the end of the loop body
SucceedRecord ==
    /\ success' = success + 1
    /\ result' = [result EXCEPT ![i] = Append(@, "succeeded")]
    /\ i' = i + 1
    /\ pc' = PcAfterRecord(i, Len(recipes))
    /\ UNCHANGED failed

\* the body of the loop in a dry run
DryRunRecord ==
    /\ pc = "loop"
    /\ dry_run
    /\ LET mealie_data == convert_mela_to_mealie(recipes[i], EmptyTable, EmptyTable)
       IN  payloads' = [payloads EXCEPT ![i] = Present(mealie_data)]
    /\ SucceedRecord
    /\ UNCHANGED <<inputVars, recipes, category_lookup, tag_lookup, catQueue, tagQueue,
                   slug, clock, serverVars, aboutCalls, catPosts, tagPosts, orgGets,
                   resolverRuns, resolveFailed, createLog, patchLog, putLog, patchStatus, uploads, ownSlugs,
                   slugsBefore, tallies, slugVars, ingVars>>

\* the response text taken as the slug with its JSON quotes left on
ResponseSlugQuoted(text) == Strip(text, WhitespaceChars)

\* slug = resp.text.strip().strip('"')
ResponseSlug(text) == Strip(Strip(text, WhitespaceChars), {"\""})

\* a create retried after any status other than 201
RetriesCreateOnAnyFailure(status) == status # "201"

\* elif resp.status_code == 409:
RetriesCreate(status) == status = "409"

\* Step 1: Create recipe stub
CreateStub ==
    /\ pc = "loop"
    /\ ~dry_run
    /\ LET title == RecipeTitle(recipes[i])
           taken == title \in Range(srvRecipes)
       IN  /\ slugsBefore' = [slugsBefore EXCEPT ![i] = DOMAIN srvRecipes]
           /\ \/ \* requests.RequestException
                 /\ createLog' = [createLog EXCEPT
                        ![i] = Append(@, [name |-> title, status |-> "error"])]
                 /\ FailRecord
                 /\ UNCHANGED <<slug, srvRecipes, ownSlugs>>
              \/ \* 201
                 /\ ~taken
                 /\ createLog' = [createLog EXCEPT
                        ![i] = Append(@, [name |-> title, status |-> "201"])]
                 /\ LET created == FreshSlug(title, DOMAIN srvRecipes)
                    IN  /\ srvRecipes' = Put(srvRecipes, created, title)
                        /\ ownSlugs' = [ownSlugs EXCEPT ![i] = @ \cup {created}]
                        /\ slug' = ResponseSlug(JsonString(created))
                 /\ pc' = "patch"
                 /\ UNCHANGED <<i, success, failed, result>>
              \/ \* 409 from a target that has the name, or any other status
                 \E status \in (IF taken THEN {"409"} ELSE {}) \cup {"500"} :
                     /\ createLog' = [createLog EXCEPT
                            ![i] = Append(@, [name |-> title, status |-> status])]
                     /\ IF RetriesCreate(status)
                        THEN /\ pc' = "retry"
                             /\ UNCHANGED <<i, success, failed, result>>
                        ELSE FailRecord
                     /\ UNCHANGED <<slug, srvRecipes, ownSlugs>>
    /\ UNCHANGED <<inputVars, recipes, category_lookup, tag_lookup, catQueue, tagQueue,
                   clock, srvCategories, srvTags, aboutCalls, catPosts, tagPosts,
                   orgGets, resolverRuns, resolveFailed, patchLog, putLog, patchStatus, uploads, payloads,
                   tallies, slugVars, ingVars>>

\* the second POST, under the name suffixed with the time
RetryCreate ==
    /\ pc = "retry"
    /\ \E now \in clock..MaxClock :
        LET title_unique == TitleUnique(RecipeTitle(recipes[i]), now)
            taken == title_unique \in Range(srvRecipes)
        IN  /\ clock' = now
            /\ \/ \* 201
                  /\ ~taken
                  /\ createLog' = [createLog EXCEPT
                         ![i] = Append(@, [name |-> title_unique, status |-> "201"])]
                  /\ LET created == FreshSlug(title_unique, DOMAIN srvRecipes)
                     IN  /\ srvRecipes' = Put(srvRecipes, created, title_unique)
                         /\ ownSlugs' = [ownSlugs EXCEPT ![i] = @ \cup {created}]
                         /\ slug' = ResponseSlug(JsonString(created))
                  /\ pc' = "patch"
                  /\ UNCHANGED <<i, success, failed, result>>
               \/ \* any other status
                  \E status \in (IF taken THEN {"409"} ELSE {}) \cup {"500"} :
                      /\ createLog' = [createLog EXCEPT
                             ![i] = Append(@, [name |-> title_unique, status |-> status])]
                      /\ FailRecord
                      /\ UNCHANGED <<slug, srvRecipes, ownSlugs>>
               \/ \* the POST raises
                  /\ createLog' = [createLog EXCEPT
                         ![i] = Append(@, [name |-> title_unique, status |-> "error"])]
                  /\ pc' = "crashed"
                  /\ UNCHANGED <<i, success, failed, result, slug, srvRecipes, ownSlugs>>
    /\ UNCHANGED <<inputVars, recipes, category_lookup, tag_lookup, catQueue, tagQueue,
                   srvCategories, srvTags, aboutCalls, catPosts, tagPosts, orgGets,
                   resolverRuns, resolveFailed, patchLog, putLog, patchStatus, uploads, payloads, slugsBefore,
                   tallies, slugVars, ingVars>>

\* Step 2: PATCH with full recipe data
PatchRecipe ==
    /\ pc = "patch"
    /\ LET mealie_data == convert_mela_to_mealie(recipes[i], category_lookup, tag_lookup)
       IN  /\ payloads' = [payloads EXCEPT ![i] = Present(mealie_data)]
           /\ patchLog' = [patchLog EXCEPT ![i] = Append(@, slug)]
           /\ \/ \* 200: the server stores the payload under the slug
                 /\ slug \in DOMAIN srvRecipes
                 /\ srvRecipes' = IF mealie_data.name # Absent
                                  THEN Put(srvRecipes, slug, mealie_data.name[1])
                                  ELSE srvRecipes
                 /\ patchStatus' = [patchStatus EXCEPT ![i] = Append(@, "200")]
                 /\ pc' = "image"
                 /\ UNCHANGED <<i, success, failed, result>>
              \/ \* any other status
                 /\ patchStatus' = [patchStatus EXCEPT ![i] = Append(@, "500")]
                 /\ FailRecord
                 /\ UNCHANGED srvRecipes
              \/ \* the PATCH raises
                 /\ patchStatus' = [patchStatus EXCEPT ![i] = Append(@, "error")]
                 /\ pc' = "crashed"
                 /\ UNCHANGED <<i, success, failed, result, srvRecipes>>
    /\ UNCHANGED <<inputVars, recipes, category_lookup, tag_lookup, catQueue, tagQueue,
                   slug, clock, srvCategories, srvTags, aboutCalls, catPosts, tagPosts,
                   orgGets, resolverRuns, resolveFailed, createLog, putLog, uploads,
                   ownSlugs, slugsBefore, tallies, slugVars, ingVars>>

\* images[0]: the image upload_image is given
HeroImage == 1

\* if images and not skip_images:
UploadsImage(images) == images # <<>> /\ ~skip_images

\* Step 3: Upload image, then success += 1
UploadImage ==
    /\ pc = "image"
    /\ LET images == recipes[i].images
           attempt(outcome) ==
               [uploads EXCEPT ![i] = Append(@, [image |-> HeroImage, outcome |-> outcome])]
       IN  IF UploadsImage(images)
           THEN \/ \* upload_image: base64 does not decode, no request is made
                   /\ images[HeroImage] = "undecodable"
                   /\ uploads' = attempt("undecodable")
                   /\ SucceedRecord
                   /\ UNCHANGED putLog
                \/ \* upload_image: the PUT returns 200 or another status
                   /\ images[HeroImage] = "valid"
                   /\ putLog' = [putLog EXCEPT ![i] = Append(@, slug)]
                   /\ \E status \in {"200", "500"} : uploads' = attempt(status)
                   /\ SucceedRecord
                \/ \* upload_image: the PUT raises, nothing catches it
                   /\ images[HeroImage] = "valid"
                   /\ putLog' = [putLog EXCEPT ![i] = Append(@, slug)]
                   /\ uploads' = attempt("error")
                   /\ pc' = "crashed"
                   /\ UNCHANGED <<i, success, failed, result>>
           ELSE /\ SucceedRecord
                /\ UNCHANGED <<putLog, uploads>>
    /\ UNCHANGED <<inputVars, recipes, category_lookup, tag_lookup, catQueue, tagQueue,
                   slug, clock, serverVars, aboutCalls, catPosts, tagPosts, orgGets,
                   resolverRuns, resolveFailed, createLog, patchLog, patchStatus,
                   ownSlugs, payloads, slugsBefore, tallies, slugVars, ingVars>>

\* Summary
PrintSummary ==
    /\ pc = "summary"
    /\ tallies' = tallies + 1
    /\ pc' = "done"
    /\ UNCHANGED <<inputVars, recipes, category_lookup, tag_lookup, catQueue, tagQueue,
                   i, slug, success, failed, clock, serverVars, aboutCalls, catPosts,
                   tagPosts, orgGets, resolverRuns, resolveFailed, createLog, patchLog,
                   putLog, patchStatus, uploads, ownSlugs, payloads, result, slugsBefore, slugVars, ingVars>>

Next ==
    \/ CheckExportExists
    \/ VerifyConnection
    \/ ExtractRecipesFromExport
    \/ PreCreateReferences
    \/ ResolveCategory
    \/ ResolveTag
    \/ DryRunRecord
    \/ CreateStub
    \/ RetryCreate
    \/ PatchRecipe
    \/ UploadImage
    \/ PrintSummary

Spec == Init /\ [][Next]_vars

TypeOK ==
    /\ pc \in {"start", "verify", "extract", "resolve", "categories", "tags", "loop",
               "retry", "patch", "image", "summary", "done", "exited", "crashed"}
    /\ success \in 0..Len(recipes)
    /\ failed \in 0..Len(recipes)
    /\ i \in 1..(Len(recipes) + 1)

----------------------------------------------------------------------------
(* Properties of migrate()                                                 *)

RECURSIVE TableTotal(_)
TableTotal(table) ==
    IF DOMAIN table = {} THEN 0
    ELSE LET key == CHOOSE x \in DOMAIN table : TRUE
         IN  table[key] + TableTotal([x \in (DOMAIN table) \ {key} |-> table[x]])

RECURSIVE LogTotal(_)
LogTotal(log) ==
    IF log = <<>> THEN 0 ELSE Len(Head(log)) + LogTotal(Tail(log))

\* every request the run has sent
NetworkCalls ==
    aboutCalls + orgGets + TableTotal(catPosts) + TableTotal(tagPosts)
    + LogTotal(createLog) + LogTotal(patchLog) + LogTotal(putLog)

Records == DOMAIN recipes

Terminated == pc \in {"done", "crashed"}

RecordsStarted == \E k \in DOMAIN createLog : createLog[k] # <<>>

\* C1: in a dry run migrate() sends no request of any kind, the lookup tables
\* stay empty and every record is mapped without category or tag references.
C1_DryRunNoNetwork ==
    dry_run =>
        /\ NetworkCalls = 0
        /\ category_lookup = EmptyTable
        /\ tag_lookup = EmptyTable
        /\ \A k \in DOMAIN payloads :
               payloads[k] # Absent =>
                   /\ payloads[k][1].recipeCategory = Absent
                   /\ payloads[k][1].tags = Absent

\* C1 witness: a dry run over two records with categories has finished
C1_Witness ==
    /\ dry_run
    /\ pc = "done"
    /\ recipes = <<RecipeTitledFavorite, RecipeTitledWanted>>
    /\ success = 2
    /\ \A k \in Records : payloads[k] # Absent

\* C2: outside a dry run, once records are being processed, the run ends with
\* every record counted exactly once, whatever its create, retry, update or
\* image call did, so that succeeded + failed is the number of records read.
C2_EveryRecordCountedOnce ==
    (~dry_run /\ RecordsStarted /\ Terminated) =>
        /\ \A k \in Records : Len(result[k]) = 1
        /\ success + failed = Len(recipes)

\* C3: a run that passed the pre-flight checks and has ended has printed the
\* final tally exactly once, whatever the number of records it read.
C3_TallyPrintedOnce ==
    /\ tallies <= 1
    /\ (pc = "done" \/ (pc = "crashed" /\ recipes # <<>>)) => tallies = 1

C5_OwnFreshSlugOnly ==
    \A k \in DOMAIN patchLog :
        /\ Cardinality(ownSlugs[k]) <= 1
        /\ Range(patchLog[k]) \cup Range(putLog[k]) \subseteq ownSlugs[k]
        /\ (Range(patchLog[k]) \cup Range(putLog[k])) \cap slugsBefore[k] = {}
        /\ \A j \in DOMAIN patchLog : j # k => ownSlugs[j] \cap ownSlugs[k] = {}

\* C5 witness: two records with the same title, on a target that had the
\* title already, were both updated and the first got its image
C5_Witness ==
    /\ pc = "done"
    /\ recipes = <<RecipeTitledFavorite, RecipeTitledWanted>>
    /\ slugify(TitlePi) \in slugsBefore[1]
    /\ Len(patchLog[1]) = 1
    /\ Len(patchLog[2]) = 1
    /\ Len(putLog[1]) = 1

\* C6: a record whose first create met a conflict and whose retry and update
\* succeeded is on the target under the suffixed name, and the update's
\* payload does not name it with the original title.
C6_CollidingRecordKeepsSuffixedName ==
    \A k \in DOMAIN createLog :
        (/\ Len(createLog[k]) = 2
         /\ createLog[k][2].status = "201"
         /\ result[k] = <<"succeeded">>) =>
            /\ \A s \in ownSlugs[k] : srvRecipes[s] = createLog[k][2].name
            /\ payloads[k][1].name # Present(createLog[k][1].name)

\* C7: outside a dry run the pre-creation block runs once, all of it before
\* the first stub is created, and from then on no category or tag request is
\* sent and neither lookup table changes.
C7_ResolverOnceBeforeRecords ==
    /\ [](~dry_run =>
            /\ resolverRuns <= 1
            /\ (pc = "loop" \/ RecordsStarted) =>
                   /\ resolverRuns = 1
                   /\ catQueue = <<>>
                   /\ tagQueue = <<>>)
    /\ [][(pc = "loop" \/ RecordsStarted) =>
            UNCHANGED <<category_lookup, tag_lookup, catPosts, tagPosts, orgGets>>]_vars

\* C7 witness: a run that resolved categories and tags has processed two records
C7_Witness ==
    /\ ~dry_run
    /\ pc = "done"
    /\ Len(recipes) = 2
    /\ DOMAIN category_lookup # {}
    /\ DOMAIN tag_lookup # {}
    /\ orgGets > 0
    /\ \A k \in Records : createLog[k] # <<>>

RefSlugs(refs) == IF refs = Absent THEN {} ELSE {refs[1][n].slug : n \in DOMAIN refs[1]}

\* C8: a name whose resolution failed is left out of its lookup table, the
\* run is not aborted, every record is processed, and no record's payload
\* refers to that name.
C8_ResolutionFailureTolerated ==
    \A f \in resolveFailed :
        /\ pc # "crashed"
        /\ pc = "done" => \A k \in Records : Len(result[k]) = 1
        /\ slugify(f[2]) \notin
               DOMAIN (IF f[1] = "category" THEN category_lookup ELSE tag_lookup)
        /\ \A k \in DOMAIN payloads :
               payloads[k] # Absent =>
                   slugify(f[2]) \notin
                       RefSlugs(IF f[1] = "category" THEN payloads[k][1].recipeCategory
                                ELSE payloads[k][1].tags)

\* C9: outside a dry run, the payload of the update of every record counted
\* as succeeded refers to the mela-import tag.
C9_SucceededTaggedMelaImport ==
    ~dry_run =>
        \A k \in DOMAIN result :
            result[k] = <<"succeeded">> =>
                /\ payloads[k] # Absent
                /\ MelaImport \in RefSlugs(payloads[k][1].tags)

\* C11: upload_image is called at most once per record, with the record's
\* first image, only after the record's PATCH returned 200 and only when
\* images are not skipped; an upload that fails (undecodable image, error
\* status or transport failure) leaves the record counted as succeeded and
\* the run goes on to count every remaining record.
C11_ImageUploadOnceNonFatal ==
    \A k \in DOMAIN uploads :
        /\ Len(uploads[k]) <= 1
        /\ Len(putLog[k]) <= 1
        /\ uploads[k] # <<>> =>
            /\ uploads[k][1].image = 1
            /\ recipes[k].images # <<>>
            /\ ~skip_images
            /\ patchStatus[k] = <<"200">>
        /\ (uploads[k] # <<>> /\ uploads[k][1].outcome # "200") =>
            /\ result[k] = <<"succeeded">>
            /\ Terminated => \A j \in Records : Len(result[j]) = 1

----------------------------------------------------------------------------
(* slugify harness: inputs over a bounded alphabet                         *)

MaxSlugLen == 4

SlugAlphabet == {"A", "b", "1", " ", "_", "-", "!", "U+00FC"}

RECURSIVE TextsUpTo(_, _)
TextsUpTo(alphabet, n) ==
    IF n = 0 THEN {<<>>}
    ELSE LET shorter == TextsUpTo(alphabet, n - 1)
         IN  shorter \cup {Append(t, c) : t \in shorter, c \in alphabet}

\* no migration runs while the harness does
MigrationOff ==
    /\ export = [exists |-> FALSE, suffix |-> ".melarecipes", entries |-> <<>>]
    /\ dry_run = TRUE
    /\ skip_images = TRUE
    /\ pc = "exited"
    /\ recipes = <<>>
    /\ category_lookup = EmptyTable
    /\ tag_lookup = EmptyTable
    /\ catQueue = <<>>
    /\ tagQueue = <<>>
    /\ i = 1
    /\ slug = <<>>
    /\ success = 0
    /\ failed = 0
    /\ clock = 1
    /\ srvRecipes = EmptyTable
    /\ srvCategories = EmptyTable
    /\ srvTags = EmptyTable
    /\ aboutCalls = 0
    /\ catPosts = EmptyTable
    /\ tagPosts = EmptyTable
    /\ orgGets = 0
    /\ resolverRuns = 0
    /\ resolveFailed = {}
    /\ createLog = <<>>
    /\ patchLog = <<>>
    /\ putLog = <<>>
    /\ patchStatus = <<>>
    /\ uploads = <<>>
    /\ ownSlugs = <<>>
    /\ payloads = <<>>
    /\ result = <<>>
    /\ slugsBefore = <<>>
    /\ tallies = 0

SlugInit ==
    /\ MigrationOff
    /\ sIn \in TextsUpTo(SlugAlphabet, MaxSlugLen)
    /\ sOnce = <<>>
    /\ sTwice = <<>>
    /\ sPc = "input"
    /\ gIn = <<>>
    /\ gOut = <<>>
    /\ gPc = "off"

SlugifyOnce ==
    /\ sPc = "input"
    /\ sOnce' = slugify(sIn)
    /\ sPc' = "once"
    /\ UNCHANGED <<sIn, sTwice, inputVars, localVars, serverVars, historyVars, ingVars>>

SlugifyTwice ==
    /\ sPc = "once"
    /\ sTwice' = slugify(sOnce)
    /\ sPc' = "twice"
    /\ UNCHANGED <<sIn, sOnce, inputVars, localVars, serverVars, historyVars, ingVars>>

SlugNext == SlugifyOnce \/ SlugifyTwice

SpecSlug == SlugInit /\ [][SlugNext]_vars

\* C10: slugify is idempotent: slugify(slugify(x)) = slugify(x) for every
\* text x over letters, digits, spaces, underscores, hyphens and punctuation.
C10_SlugifyIdempotent == sPc = "twice" => sTwice = sOnce

\* C10 witness: a text whose hyphen, space and underscore all end up trimmed
\* was slugified twice
C10_Witness ==
    /\ sPc = "twice"
    /\ sIn = <<"-", " ", "A", "_">>
    /\ sOnce = <<"a">>

----------------------------------------------------------------------------
(* Ingredient parser harness: blocks over a bounded alphabet               *)

MaxBlockLen == 6

BlockAlphabet == {"#", " ", "a", "b", Newline}

IngInit ==
    /\ MigrationOff
    /\ sIn = <<>>
    /\ sOnce = <<>>
    /\ sTwice = <<>>
    /\ sPc = "off"
    /\ gIn \in TextsUpTo(BlockAlphabet, MaxBlockLen)
    /\ gOut = <<>>
    /\ gPc = "input"

ParseIngredients ==
    /\ gPc = "input"
    /\ gOut' = mela_ingredients_to_list(gIn)
    /\ gPc' = "parsed"
    /\ UNCHANGED <<gIn, inputVars, localVars, serverVars, historyVars, slugVars>>

IngNext == ParseIngredients

SpecIngredients == IngInit /\ [][IngNext]_vars

\* the lines of the block as the claim speaks of them
BlockLines == [p \in DOMAIN SplitLines(gIn) |-> Strip(SplitLines(gIn)[p], WhitespaceChars)]

IsHeaderLine(p) == BlockLines[p] # <<>> /\ Head(BlockLines[p]) = "#"

IsContentLine(p) == BlockLines[p] # <<>> /\ Head(BlockLines[p]) # "#"

HeaderText(p) == Strip(LStrip(BlockLines[p], {"#"}), WhitespaceChars)

\* the positions of the content lines, in input order
ContentLines == SelectSeq([p \in DOMAIN BlockLines |-> p], IsContentLine)

\* the non-blank line right before line p is a header
FollowsHeader(p) ==
    \E q \in 1..(p - 1) :
        /\ IsHeaderLine(q)
        /\ \A r \in (q + 1)..(p - 1) : BlockLines[r] = <<>>

HeaderBefore(p) == CHOOSE q \in 1..(p - 1) : IsHeaderLine(q) /\ \A r \in (q + 1)..(p - 1) : BlockLines[r] = <<>>

\* C12: the parser emits exactly one ingredient per non-blank non-header
\* line, in input order; an ingredient carries a title only when it is the
\* first content line after a header, and then that header's title; a header
\* with a title gives it to the content line right after it; a header
\* followed by another header or by the end of the block gives no item and
\* no title.
C12_OneIngredientPerContentLine ==
    gPc = "parsed" =>
        /\ Len(gOut) = Len(ContentLines)
        /\ \A j \in DOMAIN gOut :
            LET p == ContentLines[j]
            IN  /\ gOut[j].note = BlockLines[p]
                /\ gOut[j].title # Absent =>
                       /\ FollowsHeader(p)
                       /\ gOut[j].title = Present(HeaderText(HeaderBefore(p)))
                /\ (FollowsHeader(p) /\ HeaderText(HeaderBefore(p)) # <<>>) =>
                       gOut[j].title = Present(HeaderText(HeaderBefore(p)))

\* C12 witness: a header, then two content lines; the first has the title
C12_Witness ==
    /\ gPc = "parsed"
    /\ gIn = <<"#", "a", Newline, "b", Newline, "b">>
    /\ Len(gOut) = 2
    /\ gOut[1].title = Present(<<"a">>)
    /\ gOut[2].title = Absent

====
